---------------------------- MODULE Spec2Model ----------------------------
(***************************************************************************)
(* OverwriteFS.py: overwriteFeatureService (with its nested touchItem)     *)
(* and the command-line entry point that logs in, looks the item up and    *)
(* calls it.                                                               *)
(*                                                                         *)
(* Python values are records [t, v]: t is the Python type and v the tokens *)
(* of the value's text (str(value)).  A string is the sequence of its      *)
(* tokens, a token being a path component, a separator or a word.          *)
(* A datetime is a record of whole seconds since the epoch; the integer 0  *)
(* the code uses for "not known" is Zero (falsy, where every datetime,     *)
(* the epoch included, is truthy).                                         *)
(***************************************************************************)
EXTENDS Integers, Sequences, FiniteSets, TLC

\* ------------------------------------------------------------ bounds
MaxViews == 2
MaxDataItems == 2
MaxTime == 1

\* ------------------------------------------------------------ Python values
PyNone == [t |-> "NoneType", v |-> <<"None">>]
PyTrue == [t |-> "bool", v |-> <<"True">>]
PyFalse == [t |-> "bool", v |-> <<"False">>]
PyStr(s) == [t |-> "str", v |-> s]
PyDict(s) == [t |-> "dict", v |-> s]
PyBool(b) == IF b THEN PyTrue ELSE PyFalse

\* bool(x): None, False, "" and {} are falsy
Truthy(x) ==
    CASE x.t = "NoneType" -> FALSE
      [] x.t = "bool" -> x = PyTrue
      [] x.t = "str" -> x.v # <<>>
      [] x.t = "dict" -> x.v # <<>>
      [] OTHER -> TRUE

\* str.lower() of one token
LowerTok(tok) ==
    CASE tok = "HTTPS" -> "https"
      [] tok = "Pro" -> "pro"
      [] tok = "PRO" -> "pro"
      [] tok = "Error Code" -> "error code"
      [] OTHER -> tok

Lower(s) == [i \in 1..Len(s) |-> LowerTok(s[i])]

Positions(s, tok) == {i \in 1..Len(s) : s[i] = tok}

Min(S) == CHOOSE x \in S : \A y \in S : x <= y
Max(S) == CHOOSE x \in S : \A y \in S : x >= y

\* s.split(":")[0]: the text before the first colon (all of it without one)
SplitColonFirst(s) ==
    IF Positions(s, ":") = {} THEN s
    ELSE SubSeq(s, 1, Min(Positions(s, ":")) - 1)

\* os.path.split(p)[-1]: the text after the last separator
BaseName(s) ==
    IF Positions(s, "/") = {} THEN s
    ELSE SubSeq(s, Max(Positions(s, "/")) + 1, Len(s))

TempDir == <<"/", "tmp">>

\* os.path.join(tempfile.gettempdir(), name)
PathJoin(dir, name) == dir \o <<"/">> \o name

Schemes == {<<"ftp">>, <<"http">>, <<"https">>}

\* updateFile.split(":")[0].lower() in ["ftp", "http", "https"]
IsUrl(s) == Lower(SplitColonFirst(s)) \in Schemes

\* s.replace("\n", " ")
FlattenNewlines(s) == [i \in 1..Len(s) |-> IF s[i] = "\n" THEN " " ELSE s[i]]

\* "Failed, Outcome: '{}'".format(e), newlines flattened when the text holds
\* "error code"
FailedOutcome(e) ==
    LET status == <<"Failed, Outcome: '">> \o e \o <<"'">>
    IN  PyStr(IF Positions(Lower(status), "error code") = {}
              THEN status ELSE FlattenNewlines(status))

\* ------------------------------------------------------------ timestamps
Zero == [t |-> "int", sec |-> 0]
Datetime(sec) == [t |-> "datetime", sec |-> sec]

\* bool(x) of 0 or of a datetime
TimeTruthy(x) == x.t = "datetime" \/ x.sec # 0

\* datetime.datetime.utcfromtimestamp( int( ms / 1000))
FromMillis(ms) == Datetime(ms \div 1000)

\* the service properties: layers (possibly none), the first layer's
\* editingInfo (possibly missing) and its lastEditDate in milliseconds
\* (possibly missing or None, both read back as falsy)
EditDates == {0} \cup {s * 1000 + f : s \in 0..MaxTime, f \in {0, 999}}

NoLayers == [layers |-> 0, editingInfo |-> FALSE, lastEditDate |-> 0]

Properties ==
    {NoLayers,
     [layers |-> 1, editingInfo |-> FALSE, lastEditDate |-> 0]}
    \cup {[layers |-> 1, editingInfo |-> TRUE, lastEditDate |-> d] : d \in EditDates}

\* serviceLastModified as lines 116-117 compute it
ServiceLastModified(props) ==
    LET raw == IF props.layers = 0 THEN 0
               ELSE IF ~props.editingInfo THEN 0
               ELSE props.lastEditDate
    IN  IF raw = 0 THEN Zero ELSE FromMillis(raw)

\* fileLastModified as line 129 computes it: mtime is -1 when the
\* file does not exist, else its modification time in milliseconds
FileLastModified(mtime) ==
    IF mtime < 0 THEN Zero ELSE FromMillis(mtime)

\* lastModified = serviceLastModified if serviceLastModified else fileLastModified
EffectiveLastModified(service, file) ==
    IF TimeTruthy(service) THEN service ELSE file

\* the response headers: "Last-Modified" missing, unparseable, or a time
NoHeader == [present |-> FALSE, parses |-> FALSE, sec |-> 0]

HeaderSet ==
    {NoHeader,
     [present |-> TRUE, parses |-> FALSE, sec |-> 0]}
    \cup {[present |-> TRUE, parses |-> TRUE, sec |-> s] : s \in 0..MaxTime}

\* the test of line 155 with > for >=
NoChange_Strict(lastMod, headers) ==
    /\ TimeTruthy(lastMod)
    /\ headers.present
    /\ headers.parses
    /\ lastMod.sec > headers.sec

\* the test of line 155; a strptime error is swallowed by line 164 and the
\* download goes ahead
NoChange(lastMod, headers) ==
    /\ TimeTruthy(lastMod)
    /\ headers.present
    /\ headers.parses
    /\ lastMod.sec >= headers.sec

\* ------------------------------------------------------------ platform replies
ErrPlain == <<"timed out">>
ErrCode == <<"Error Code", ": 400", "\n", "Invalid item">>

Returns(val) == [raised |-> FALSE, val |-> val]
Raises(msg) == [raised |-> TRUE, val |-> PyStr(msg)]

\* what item.update() can do
UpdateReplies ==
    {Returns(PyTrue), Returns(PyFalse), Returns(PyNone), Raises(ErrCode)}

\* what manager.overwrite() can do
OverwriteReplies ==
    {Returns(PyDict(<<"success", "True">>)),
     Returns(PyDict(<<"success", "False">>)),
     Returns(PyDict(<<"error", "True">>)),
     Returns(PyDict(<<>>)),
     Returns(PyTrue),
     Raises(ErrCode)}

\* a dict is the sequence key, value, key, value, ...
DictHas(d, k) == \E i \in 1..Len(d.v) : i % 2 = 1 /\ d.v[i] = k
DictGet(d, k) == d.v[(CHOOSE i \in 1..Len(d.v) : i % 2 = 1 /\ d.v[i] = k) + 1]

\* status and isinstance( status, dict) and "success" in status and status[ "success"]
OverwriteSucceeded(status) ==
    /\ Truthy(status)
    /\ status.t = "dict"
    /\ DictHas(status, "success")
    /\ DictGet(status, "success") = "True"

\* lines 195-211 without the raise of line 201
OverwriteStatus_KeepsReturn(reply) ==
    IF reply.raised THEN FailedOutcome(reply.val.v)
    ELSE IF OverwriteSucceeded(reply.val) THEN PyTrue
    ELSE reply.val

\* lines 195-211: the status the update step records for a reply
OverwriteStatus(reply) ==
    IF ~reply.raised /\ OverwriteSucceeded(reply.val) THEN PyTrue
    ELSE FailedOutcome(reply.val.v)

\* lines 61-74 without the raise of line 65
TouchStatus_KeepsReturn(reply) ==
    IF reply.raised THEN FailedOutcome(reply.val.v) ELSE reply.val

\* lines 61-74: the status touchItem records for a reply of item.update();
\* the replies are booleans, None or an exception, so == True is identity
TouchStatus(reply) ==
    IF ~reply.raised /\ reply.val = PyTrue THEN reply.val
    ELSE FailedOutcome(reply.val.v)

\* the record appended to outcome["items"]
Record(it, action, result) ==
    [id |-> it.id, title |-> it.title, itemType |-> it.type,
     action |-> action, result |-> result]

Action(name) == PyStr(<<name>>)

\* ------------------------------------------------------------ inputs
AllViews == <<"view1", "view2", "view3", "view4">>

ViewItem(i) == [id |-> AllViews[i], title |-> AllViews[i], type |-> "Feature Service"]

DataNames == {PyStr(<<"data.zip">>), PyStr(<<>>)}

SeqsUpTo(S, n) == UNION {[1..k -> S] : k \in 0..n}

\* the catalog items a call can be given: the type, the names of the
\* Service2Data items in the order the catalog lists them, the number of
\* Service2Service views
Items ==
    {[id |-> "fs", title |-> "Roads", type |-> ty, data |-> d, views |-> n] :
        ty \in {"Feature Service", "Map Service"},
        d \in SeqsUpTo(DataNames, MaxDataItems),
        n \in 0..MaxViews}

\* the update sources: none, the empty string, local paths and URLs
UpdateFiles ==
    {PyNone,
     PyStr(<<>>),
     PyStr(<<"data.zip">>),
     PyStr(<<"C", ":", "/", "in", "/", "data.zip">>),
     PyStr(<<"in", "/", "data.csv">>),
     PyStr(<<"HTTPS", ":", "/", "host", "/", "feed.csv">>)}

Profiles == {<<"work">>, <<"Pro">>, <<>>}

\* sys.argv: the script, then profile, item id, title and the optional file
\* (the empty profile is tried without a file only)
Argvs ==
    {<<<<"OverwriteFS.py">>, p>> : p \in Profiles}
    \cup {<<<<"OverwriteFS.py">>, p, <<"fs">>, <<"Roads">>>> : p \in Profiles}
    \cup {<<<<"OverwriteFS.py">>, p, <<"fs">>, <<"Roads">>, f.v>> :
            p \in Profiles \ {<<>>}, f \in UpdateFiles \ {PyNone}}

\* ------------------------------------------------------------ state
VARIABLES
    entry,                \* "import": the function is called; "main": the script runs
    pc,                   \* the line the run is at
    argv,                 \* sys.argv of the script
    item,                 \* the catalog item
    updateFile,           \* parameter, rebound by line 171
    touchItems,           \* parameter
    verbose,              \* parameter
    outcome,              \* {"success": ..., "items": [...]}
    outputFile,           \* local of overwriteFeatureService
    layers,               \* local: what manager.properties holds of the first layer
    serviceLastModified,  \* local
    mtime,                \* os.stat( outputFile).st_mtime in milliseconds, -1 without a file
    lastModified,         \* local
    headers,              \* local: the "Last-Modified" header of the response
    view,                 \* index of the loop of line 226
    calls,                \* the catalog, network and platform calls made so far
    printed,              \* what print() wrote
    gis,                  \* the script's session: unbound, or bound and logged in or not
    exitMessage           \* the argument of exit(), or the uncaught exception

fnVars == <<item, updateFile, touchItems, verbose, outcome, outputFile,
            layers, serviceLastModified, mtime, lastModified, headers, view>>
mainVars == <<entry, argv, gis, exitMessage>>
vars == <<entry, pc, argv, item, updateFile, touchItems, verbose, outcome,
          outputFile, layers, serviceLastModified, mtime, lastModified, headers,
          view, calls, printed, gis, exitMessage>>

Unbound == [bound |-> FALSE, username |-> PyNone]
Session(user) == [bound |-> TRUE, username |-> user]

\* a call of the log: what was called, on which item, with which text, and
\* what it did (it returned a value or raised)
Call(op, on, arg, reply) == [op |-> op, on |-> on, arg |-> arg, reply |-> reply]

\* print( ...) under "if verbose:"
Say(msg) == IF verbose THEN Append(printed, msg) ELSE printed

\* line 83
NewOutcome == [success |-> PyNone, items |-> <<>>]

\* outcome[ "items"].append( ...), and the overall flag
Appended(rec) == [outcome EXCEPT !.items = Append(@, rec)]
AppendedWith(rec, success) == [success |-> success, items |-> Append(outcome.items, rec)]

Init ==
    /\ entry \in {"import", "main"}
    /\ item \in Items
    /\ outcome = NewOutcome
    /\ outputFile = PyStr(<<>>)
    /\ layers = NoLayers
    /\ serviceLastModified = Zero
    /\ mtime = -1
    /\ lastModified = Zero
    /\ headers = NoHeader
    /\ view = 1
    /\ calls = <<>>
    /\ printed = <<>>
    /\ gis = Unbound
    /\ exitMessage = PyNone
    /\ \/ /\ entry = "import"
          /\ pc = "L83"
          /\ argv = <<>>
          /\ updateFile \in UpdateFiles
          /\ touchItems \in BOOLEAN
          /\ verbose \in BOOLEAN
       \/ /\ entry = "main"
          /\ pc = "L237"
          /\ argv \in Argvs
          /\ updateFile = PyNone
          /\ touchItems = TRUE
          /\ verbose = TRUE

\* ------------------------------------------------------------ overwriteFeatureService
\* lines 83-90 without the else of line 91: a wrong type is recorded and the
\* run goes on to the data item
VerifyItem_FallsThrough ==
    /\ pc = "L83"
    /\ outcome' = IF item.type # "Feature Service"
                  THEN AppendedWith(
                           Record(item, Action("verify"),
                                  PyStr(<<"Item Type is NOT a 'Feature Service'">>)),
                           PyFalse)
                  ELSE outcome
    /\ pc' = "L95"
    /\ UNCHANGED <<item, updateFile, touchItems, verbose, outputFile,
                   layers, serviceLastModified, mtime, lastModified, headers, view, calls, printed>>
    /\ UNCHANGED mainVars

\* lines 83-90: the type check; a wrong type falls through to line 225
VerifyItem ==
    /\ pc = "L83"
    /\ IF item.type # "Feature Service"
       THEN /\ outcome' = AppendedWith(
                    Record(item, Action("verify"),
                           PyStr(<<"Item Type is NOT a 'Feature Service'">>)),
                    PyFalse)
            /\ pc' = "L225"
       ELSE /\ outcome' = outcome
            /\ pc' = "L95"
    /\ UNCHANGED <<item, updateFile, touchItems, verbose, outputFile,
                   layers, serviceLastModified, mtime, lastModified, headers, view, calls, printed>>
    /\ UNCHANGED mainVars

\* the name the loop of lines 95-97 leaves in outputFile: the last one listed
LastDataName(names) == IF names = <<>> THEN PyStr(<<>>) ELSE names[Len(names)]

\* lines 95-103 without the return of line 103
VerifyDataItem_NoReturn ==
    /\ pc = "L95"
    /\ calls' = Append(calls, Call("related_items", item.id, <<"Service2Data">>, Returns(PyNone)))
    /\ outputFile' = LastDataName(item.data)
    /\ outcome' = IF ~Truthy(outputFile')
                  THEN AppendedWith(
                           Record(item, Action("verify"),
                                  PyStr(<<"Missing Associated Service Data Item or datafile Item 'name'">>)),
                           PyFalse)
                  ELSE outcome
    /\ pc' = "L108"
    /\ UNCHANGED <<item, updateFile, touchItems, verbose,
                   layers, serviceLastModified, mtime, lastModified, headers, view, printed>>
    /\ UNCHANGED mainVars

\* lines 95-103: the Service2Data query and the check of the filename
VerifyDataItem ==
    /\ pc = "L95"
    /\ \/ /\ calls' = Append(calls, Call("related_items", item.id, <<"Service2Data">>, Raises(ErrPlain)))
          /\ pc' = "raised"
          /\ exitMessage' = PyStr(ErrPlain)
          /\ UNCHANGED <<outcome, outputFile>>
       \/ /\ calls' = Append(calls, Call("related_items", item.id, <<"Service2Data">>, Returns(PyNone)))
          /\ outputFile' = LastDataName(item.data)
          /\ exitMessage' = exitMessage
          /\ IF ~Truthy(outputFile')
             THEN /\ outcome' = AppendedWith(
                          Record(item, Action("verify"),
                                 PyStr(<<"Missing Associated Service Data Item or datafile Item 'name'">>)),
                          PyFalse)
                  /\ pc' = "returned"
             ELSE /\ outcome' = outcome
                  /\ pc' = "L108"
    /\ UNCHANGED <<item, updateFile, touchItems, verbose,
                   layers, serviceLastModified, mtime, lastModified, headers, view, printed>>
    /\ UNCHANGED <<entry, argv, gis>>

\* lines 174-181: the download-failure return
DownloadFailed(e) ==
    AppendedWith(
        Record(item, Action("download"),
               PyStr(<<"Failed to Download data from url, Outcome: '">> \o e \o <<"'">>)),
        PyFalse)

\* line 183 with the test inverted
FilenameDiffers_Inverted(update, original) == BaseName(update.v) = BaseName(original.v)

\* line 183: the local filename is not the published one
FilenameDiffers(update, original) == BaseName(update.v) # BaseName(original.v)

\* lines 108-125 and 183-187: with an update file, fetch the layer manager and
\* the service properties, then take the URL branch, reject a local filename
\* that differs, or go on to the overwrite
GetManager ==
    /\ pc = "L108"
    /\ Truthy(updateFile)
    /\ \/ /\ calls' = Append(calls, Call("fromitem", item.id, <<>>, Raises(ErrPlain)))
          /\ pc' = "raised"
          /\ exitMessage' = PyStr(ErrPlain)
          /\ UNCHANGED <<outcome, layers, serviceLastModified, printed>>
       \/ \E props \in Properties :
            /\ calls' = calls \o <<Call("fromitem", item.id, <<>>, Returns(PyNone)),
                                  Call("properties", item.id, <<>>, Returns(PyNone))>>
            /\ layers' = props
            /\ serviceLastModified' = ServiceLastModified(props)
            /\ exitMessage' = exitMessage
            /\ printed' = IF verbose /\ TimeTruthy(serviceLastModified')
                          THEN Append(printed, "Service Last Modified") ELSE printed
            /\ IF IsUrl(updateFile.v)
               THEN /\ pc' = "L126"
                    /\ outcome' = outcome
               ELSE IF FilenameDiffers(updateFile, outputFile)
               THEN /\ pc' = "returned"
                    /\ outcome' = AppendedWith(
                            Record(item, Action("verify"),
                                   PyStr(<<"Update Filename '">> \o updateFile.v
                                         \o <<"' does NOT match Original Filename used to Publish Service: '">>
                                         \o outputFile.v \o <<"'">>)),
                            PyFalse)
               ELSE /\ pc' = "L195"
                    /\ outcome' = outcome
    /\ UNCHANGED <<item, updateFile, touchItems, verbose, outputFile, mtime,
                   lastModified, headers, view>>
    /\ UNCHANGED <<entry, argv, gis>>

\* the modification times a local copy can have, in milliseconds; -1: no file
FileTimes == {-1} \cup {t * 1000 + 500 : t \in 0..MaxTime}

\* lines 126-132: the temp path and the reference time of the comparison
PrepareDownload ==
    /\ pc = "L126"
    /\ outputFile' = PyStr(PathJoin(TempDir, outputFile.v))
    /\ \E t \in FileTimes :
         /\ mtime' = t
         /\ lastModified' = EffectiveLastModified(serviceLastModified, FileLastModified(t))
    /\ pc' = "L134"
    /\ UNCHANGED <<item, updateFile, touchItems, verbose, outcome,
                   layers, serviceLastModified, headers, view, calls, printed>>
    /\ UNCHANGED mainVars

\* lines 134-166 and 173-181: open the URL, read the headers, stop when the
\* data is not newer
OpenUrl ==
    /\ pc = "L134"
    /\ \/ \E e \in {ErrPlain, ErrCode} :
            /\ calls' = Append(calls, Call("urlopen", item.id, updateFile.v, Raises(e)))
            /\ outcome' = DownloadFailed(e)
            /\ printed' = Say("Accessing URL") \o (IF verbose THEN <<"Failed to Download">> ELSE <<>>)
            /\ headers' = headers
            /\ pc' = "returned"
       \/ \E h \in HeaderSet :
            /\ calls' = Append(calls, Call("urlopen", item.id, updateFile.v, Returns(PyNone)))
            /\ headers' = h
            /\ IF NoChange(lastModified, h)
               THEN /\ outcome' = Appended(
                            Record(item, Action("download"), PyStr(<<"No Change in URL Data">>)))
                    /\ printed' = Say("Accessing URL") \o (IF verbose THEN <<"No Change">> ELSE <<>>)
                    /\ pc' = "returned"
               ELSE /\ outcome' = outcome
                    /\ printed' = Say("Accessing URL")
                           \o (IF verbose /\ TimeTruthy(lastModified) /\ h.present /\ ~h.parses
                               THEN <<"Issue Ignored">> ELSE <<>>)
                    /\ pc' = "L171"
    /\ UNCHANGED <<item, updateFile, touchItems, verbose, outputFile,
                   layers, serviceLastModified, mtime, lastModified, view>>
    /\ UNCHANGED mainVars

\* lines 168-181: download to the temp path, which becomes the update file
Download ==
    /\ pc = "L171"
    /\ \/ \E e \in {ErrPlain, ErrCode} :
            /\ calls' = Append(calls, Call("urlretrieve", item.id, outputFile.v, Raises(e)))
            /\ outcome' = DownloadFailed(e)
            /\ printed' = Say("Downloading Data") \o (IF verbose THEN <<"Failed to Download">> ELSE <<>>)
            /\ updateFile' = updateFile
            /\ pc' = "returned"
       \/ /\ calls' = Append(calls, Call("urlretrieve", item.id, outputFile.v, Returns(PyNone)))
          /\ updateFile' = outputFile
          /\ outcome' = outcome
          /\ printed' = Say("Downloading Data")
          /\ pc' = "L195"
    /\ UNCHANGED <<item, touchItems, verbose, outputFile,
                   layers, serviceLastModified, mtime, lastModified, headers, view>>
    /\ UNCHANGED mainVars

\* lines 192-214: the overwrite call, its record and the overall flag
Overwrite ==
    /\ pc = "L195"
    /\ \E reply \in OverwriteReplies :
         LET status == OverwriteStatus(reply)
         IN  /\ calls' = Append(calls, Call("overwrite", item.id, updateFile.v, reply))
             /\ outcome' = AppendedWith(Record(item, Action("update"), status),
                                        PyBool(status = PyTrue))
             /\ printed' = Say("Performing Overwrite")
                    \o (IF ~verbose THEN <<>>
                        ELSE IF status = PyTrue THEN <<"Success">> ELSE <<"Failed to Update Item">>)
    /\ pc' = "L225"
    /\ UNCHANGED <<item, updateFile, touchItems, verbose, outputFile,
                   layers, serviceLastModified, mtime, lastModified, headers, view>>
    /\ UNCHANGED mainVars

\* lines 57-77, touchItem: the record it appends, what it returns, what it prints
TouchRecord(it, reply) == Record(it, Action("touch"), TouchStatus(reply))
TouchResult(reply) == TouchStatus(reply) = PyTrue
TouchPrinted(message, reply) ==
    Say(message) \o (IF ~verbose THEN <<>>
                     ELSE IF TouchResult(reply) THEN <<"Success">> ELSE <<"Failed to Touch">>)

\* lines 216-217: without an update file, touch the item itself
TouchPrimary ==
    /\ pc = "L108"
    /\ ~Truthy(updateFile)
    /\ touchItems
    /\ \E reply \in UpdateReplies :
         /\ calls' = Append(calls, Call("update", item.id, <<>>, reply))
         /\ outcome' = AppendedWith(TouchRecord(item, reply), PyBool(TouchResult(reply)))
         /\ printed' = TouchPrinted("Touching Item details", reply)
    /\ pc' = "L225"
    /\ UNCHANGED <<item, updateFile, touchItems, verbose, outputFile,
                   layers, serviceLastModified, mtime, lastModified, headers, view>>
    /\ UNCHANGED mainVars

\* lines 219-220: nothing to do, an empty record
NoAction ==
    /\ pc = "L108"
    /\ ~Truthy(updateFile)
    /\ ~touchItems
    /\ outcome' = Appended(Record(item, PyNone, PyNone))
    /\ pc' = "L225"
    /\ UNCHANGED <<item, updateFile, touchItems, verbose, outputFile,
                   layers, serviceLastModified, mtime, lastModified, headers, view, calls, printed>>
    /\ UNCHANGED mainVars

\* line 225 without the test of the outcome
CascadeWanted_IgnoresOutcome == touchItems

\* line 225: the views are touched when touchItems is set and the outcome is a success
CascadeWanted == touchItems /\ outcome.success = PyTrue

\* lines 225-226: the Service2Service query, or straight to the return
RelatedViews ==
    /\ pc = "L225"
    /\ \/ /\ CascadeWanted
          /\ \/ /\ calls' = Append(calls, Call("related_items", item.id, <<"Service2Service">>, Raises(ErrPlain)))
                /\ pc' = "raised"
                /\ exitMessage' = PyStr(ErrPlain)
             \/ /\ calls' = Append(calls, Call("related_items", item.id, <<"Service2Service">>, Returns(PyNone)))
                /\ pc' = "L227"
                /\ exitMessage' = exitMessage
       \/ /\ ~CascadeWanted
          /\ pc' = "returned"
          /\ UNCHANGED <<calls, exitMessage>>
    /\ view' = 1
    /\ UNCHANGED <<item, updateFile, touchItems, verbose, outcome, outputFile,
                   layers, serviceLastModified, mtime, lastModified, headers, printed>>
    /\ UNCHANGED <<entry, argv, gis>>

\* line 227 with a loop that ends at the first view whose touch fails
TouchView_StopsOnFailure ==
    /\ pc = "L227"
    /\ view <= item.views
    /\ \E reply \in UpdateReplies :
         /\ calls' = Append(calls, Call("update", ViewItem(view).id, <<>>, reply))
         /\ outcome' = Appended(TouchRecord(ViewItem(view), reply))
         /\ printed' = TouchPrinted("Touching details for related View", reply)
         /\ pc' = IF TouchResult(reply) THEN "L227" ELSE "returned"
    /\ view' = view + 1
    /\ UNCHANGED <<item, updateFile, touchItems, verbose, outputFile,
                   layers, serviceLastModified, mtime, lastModified, headers>>
    /\ UNCHANGED mainVars

\* line 227: touch the next view; its result changes nothing but its record
TouchView ==
    /\ pc = "L227"
    /\ view <= item.views
    /\ \E reply \in UpdateReplies :
         /\ calls' = Append(calls, Call("update", ViewItem(view).id, <<>>, reply))
         /\ outcome' = Appended(TouchRecord(ViewItem(view), reply))
         /\ printed' = TouchPrinted("Touching details for related View", reply)
    /\ view' = view + 1
    /\ pc' = "L227"
    /\ UNCHANGED <<item, updateFile, touchItems, verbose, outputFile,
                   layers, serviceLastModified, mtime, lastModified, headers>>
    /\ UNCHANGED mainVars

\* line 229, after the last view
ReturnOutcome ==
    /\ pc = "L227"
    /\ view > item.views
    /\ pc' = "returned"
    /\ UNCHANGED fnVars
    /\ UNCHANGED <<calls, printed>>
    /\ UNCHANGED mainVars

\* ------------------------------------------------------------ the script
\* line 251: usingPro = profile.lower() == "pro"
UsingPro == Lower(argv[2]) = <<"pro">>

Exit(msg) ==
    /\ pc' = "exited"
    /\ exitMessage' = PyStr(msg)

\* lines 237-260: the arguments; a local update file must exist
ReadArguments ==
    /\ pc = "L237"
    /\ IF Len(argv) < 4
       THEN /\ Exit(<<"Insufficient Input Parameters, please review 'Usage'!">>)
            /\ updateFile' = updateFile
       ELSE /\ updateFile' = IF Len(argv) < 5 THEN PyNone ELSE PyStr(argv[5])
            /\ \E exists \in BOOLEAN :
                 LET updateExists == IF Len(argv) < 5 THEN PyFalse
                                     ELSE IF IsUrl(argv[5]) THEN PyNone
                                     ELSE PyBool(exists)
                 IN  IF Truthy(updateFile') /\ updateExists = PyFalse
                     THEN Exit(<<"Unable to locate Update File">>)
                     ELSE /\ pc' = "L269"
                          /\ exitMessage' = exitMessage
    /\ UNCHANGED <<item, touchItems, verbose, outcome, outputFile, layers,
                   serviceLastModified, mtime, lastModified, headers, view, calls, printed>>
    /\ UNCHANGED <<entry, argv, gis>>

\* the usernames a profile or a session can carry
Usernames == {PyNone, PyStr(<<>>), PyStr(<<"editor">>)}

\* lines 269-280: look for the SDK's password function by either route; with
\* neither, getPassword stays None and the block of line 280 is skipped
FindGetPassword ==
    /\ pc = "L269"
    /\ ~UsingPro
    /\ \E route \in {"GIS", "ProfileManager", "none"} :
         /\ pc' = IF route = "none" THEN "L307" ELSE "L282"
         /\ printed' = IF route = "none" THEN Append(printed, "Cannot check password") ELSE printed
    /\ UNCHANGED fnVars
    /\ UNCHANGED <<calls>>
    /\ UNCHANGED mainVars

\* lines 282-292: a stored username without a stored password stops the run
CheckPassword ==
    /\ pc = "L282"
    /\ \E isfile \in BOOLEAN, username \in Usernames, password \in {PyNone, PyStr(<<"secret">>)} :
         IF isfile /\ argv[2] # <<>> /\ username # PyNone /\ Truthy(username) /\ password = PyNone
         THEN Exit(<<"Password missing for user">>)
         ELSE /\ pc' = "L294"
              /\ exitMessage' = exitMessage
    /\ UNCHANGED fnVars
    /\ UNCHANGED <<calls, printed>>
    /\ UNCHANGED <<entry, argv, gis>>

\* lines 294-298: log in with the profile
Login ==
    /\ pc = "L294"
    /\ calls' = Append(calls, Call("GIS", "profile", argv[2], Returns(PyNone)))
    /\ printed' = Append(printed, "Accessing ArcGIS Online/Enterprise")
    /\ \E username \in Usernames :
         /\ gis' = Session(username)
         /\ IF ~Truthy(username)
            THEN Exit(<<"Login failed, please verify Profile!">>)
            ELSE /\ pc' = "L307"
                 /\ exitMessage' = exitMessage
    /\ UNCHANGED fnVars
    /\ UNCHANGED <<entry, argv>>

\* lines 300-302: log in through the desktop session; line 302 reads
\* gis.users.me.username, which raises when nobody is signed in (me is None)
LoginPro ==
    /\ pc = "L269"
    /\ UsingPro
    /\ calls' = Append(calls, Call("GIS", "pro", <<>>, Returns(PyNone)))
    /\ printed' = Append(printed, "Accessing ArcGIS Online/Enterprise using Pro")
    /\ \E username \in {PyNone, PyStr(<<"editor">>)} :
         /\ gis' = Session(username)
         /\ IF username = PyNone
            THEN /\ pc' = "raised"
                 /\ exitMessage' = PyStr(<<"AttributeError">>)
            ELSE /\ pc' = "L307"
                 /\ exitMessage' = exitMessage
    /\ UNCHANGED fnVars
    /\ UNCHANGED <<entry, argv>>

\* lines 307-319: gis.content.get, the checks of the item, the call.  Reading
\* a gis that was never assigned raises NameError
GetItem ==
    /\ pc = "L307"
    /\ IF ~gis.bound
       THEN /\ pc' = "raised"
            /\ exitMessage' = PyStr(<<"NameError: name 'gis' is not defined">>)
            /\ calls' = calls
       ELSE /\ calls' = Append(calls, Call("content.get", "gis", argv[3], Returns(PyNone)))
            /\ \E found \in BOOLEAN, title \in {<<"Roads">>, <<"Rivers">>} :
                 IF ~found
                 THEN Exit(<<"Unable to Locate specified Item">>)
                 ELSE IF title # argv[4]
                 THEN Exit(<<"Feature Service Item Title does NOT match specified Title">>)
                 ELSE /\ pc' = "L83"
                      /\ exitMessage' = exitMessage
    /\ printed' = Append(printed, "Checking item")
    /\ UNCHANGED fnVars
    /\ UNCHANGED <<entry, argv, gis>>

\* lines 319-321: a failed outcome ends the run with its first record's result
ReportOutcome ==
    /\ pc = "returned"
    /\ entry = "main"
    /\ IF outcome.success = PyFalse
       THEN /\ pc' = IF outcome.items = <<>> THEN "raised" ELSE "exited"
            /\ exitMessage' = IF outcome.items = <<>> THEN PyStr(<<"IndexError">>)
                              ELSE outcome.items[1].result
       ELSE /\ pc' = "finished"
            /\ exitMessage' = exitMessage
    /\ UNCHANGED fnVars
    /\ UNCHANGED <<calls, printed>>
    /\ UNCHANGED <<entry, argv, gis>>

\* ------------------------------------------------------------ specification
Next ==
    \/ VerifyItem
    \/ VerifyDataItem
    \/ GetManager
    \/ PrepareDownload
    \/ OpenUrl
    \/ Download
    \/ Overwrite
    \/ TouchPrimary
    \/ NoAction
    \/ RelatedViews
    \/ TouchView
    \/ ReturnOutcome
    \/ ReadArguments
    \/ FindGetPassword
    \/ CheckPassword
    \/ Login
    \/ LoginPro
    \/ GetItem
    \/ ReportOutcome

Spec == Init /\ [][Next]_vars

\* ------------------------------------------------------------ properties
\* the calls overwriteFeatureService makes, by kind
CallsWith(ops) == SelectSeq(calls, LAMBDA c : c.op \in ops)

ViewIds == {AllViews[i] : i \in 1..item.views}

TouchesOf(id) == SelectSeq(calls, LAMBDA c : c.op = "update" /\ c.on = id)

RecordsWith(action) == SelectSeq(outcome.items, LAMBDA r : r.action = Action(action))

TouchRecordsOf(id) == SelectSeq(outcome.items, LAMBDA r : r.action = Action("touch") /\ r.id = id)

ViewRecords == SelectSeq(outcome.items, LAMBDA r : r.id \in ViewIds)

\* the platform said the overwrite worked
SuccessReply == Returns(PyDict(<<"success", "True">>))

OverwriteWorked == \E i \in 1..Len(calls) : calls[i].op = "overwrite" /\ calls[i].reply = SuccessReply

EveryViewTouchedOnce ==
    \A id \in ViewIds : Len(TouchesOf(id)) = 1 /\ Len(TouchRecordsOf(id)) = 1

\* C1 as stated: whatever touchItems is, a call that returns after a
\* successful overwrite has touched every view exactly once, holds one touch
\* record per view and reports success.
C1_WhateverTouchItems ==
    (pc = "returned" /\ OverwriteWorked)
        => (EveryViewTouchedOnce /\ outcome.success = PyTrue)

\* C1 amended: with touchItems set, a call that returns after a successful
\* overwrite has touched every view exactly once, holds one touch record per
\* view whatever each touch did, and reports success; with touchItems unset it
\* reports success and has touched no view.
C1_CascadeWhenTouchItems ==
    (pc = "returned" /\ OverwriteWorked)
        => /\ outcome.success = PyTrue
           /\ touchItems => EveryViewTouchedOnce
           /\ ~touchItems => ViewRecords = <<>> /\ CallsWith({"update"}) = <<>>

C1_Witness ==
    /\ pc = "returned"
    /\ OverwriteWorked
    /\ touchItems
    /\ item.views >= 2
    /\ \E i, j \in 1..Len(ViewRecords) :
         ViewRecords[i].result = PyTrue /\ ViewRecords[j].result.t = "str"

\* the update file is a local path whose name is not the published one
LocalMismatch ==
    /\ item.type = "Feature Service"
    /\ item.data # <<>>
    /\ Truthy(item.data[Len(item.data)])
    /\ Truthy(updateFile)
    /\ ~IsUrl(updateFile.v)
    /\ BaseName(updateFile.v) # item.data[Len(item.data)].v

\* C2 as stated: with a local update file whose name differs from the
\* published one, no layer-manager or properties fetch, no URL open or
\* download, no overwrite and no touch is ever made.
C2_NoCallBeforeRejection ==
    LocalMismatch
        => CallsWith({"fromitem", "properties", "urlopen", "urlretrieve",
                      "overwrite", "update"}) = <<>>

Destructive == CallsWith({"overwrite", "update"})

\* C3: once the overall success is false no step makes an overwrite or a
\* touch call any more, and an outcome whose success is false holds no record
\* of a view.
C3_NothingDestructiveAfterFailure ==
    [][/\ outcome.success = PyFalse => Destructive' = Destructive
       /\ outcome'.success = PyFalse => ViewRecords' = <<>>]_vars

C3_Witness ==
    /\ pc = "returned"
    /\ outcome.success = PyFalse
    /\ touchItems
    /\ item.views > 0
    /\ CallsWith({"overwrite"}) # <<>>

\* C4: an item that is no Feature Service gets no related-items query, no
\* overwrite and no touch, its call never raises, and it returns success
\* false with the one record "verify".
C4_NotAFeatureService ==
    (item.type # "Feature Service")
        => /\ CallsWith({"related_items", "overwrite", "update"}) = <<>>
           /\ entry = "import" => pc \in {"L83", "L225", "returned"}
           /\ pc = "returned"
                => /\ outcome.success = PyFalse
                   /\ Len(outcome.items) = 1
                   /\ outcome.items[1].action = Action("verify")

C4_Witness ==
    /\ pc = "returned"
    /\ item.type # "Feature Service"
    /\ Truthy(updateFile)
    /\ touchItems
    /\ verbose
    /\ item.views > 0

\* the item has no data item, or none with a filename
NoDataFilename ==
    /\ item.type = "Feature Service"
    /\ \A i \in 1..Len(item.data) : ~Truthy(item.data[i])

\* C5: a Feature Service without a data item, or without a filename on it,
\* makes the Service2Data query and no other call, and returns success false
\* with one record.
C5_MissingDataItem ==
    NoDataFilename
        => /\ CallsWith({"fromitem", "properties", "urlopen", "urlretrieve",
                         "overwrite", "update"}) = <<>>
           /\ \A i \in 1..Len(calls) :
                calls[i].op = "related_items" => calls[i].arg = <<"Service2Data">>
           /\ Len(CallsWith({"related_items"})) <= 1
           /\ pc = "returned"
                => /\ outcome.success = PyFalse
                   /\ Len(outcome.items) = 1

C5_Witness ==
    /\ pc = "returned"
    /\ NoDataFilename
    /\ Len(item.data) >= 1
    /\ ~Truthy(updateFile)
    /\ touchItems
    /\ item.views > 0

\* the reference time of the comparison in milliseconds, -1 when there is
\* none: the service's last edit when the properties give one, else the
\* modification time of the local copy
ReferenceMillis ==
    IF layers.layers = 1 /\ layers.editingInfo /\ layers.lastEditDate # 0
    THEN layers.lastEditDate
    ELSE mtime

\* the response carried a readable Last-Modified that is not after the reference
NotNewer ==
    /\ headers.present
    /\ headers.parses
    /\ ReferenceMillis >= 0
    /\ headers.sec * 1000 <= ReferenceMillis

\* C6: when the URL's Last-Modified is not after the reference time the call
\* has returned with success None and the one record "download", no change,
\* and neither downloaded, overwrote nor touched.
C6_NoChangeShortCircuit ==
    NotNewer
        => /\ pc \in {"returned", "finished"}
           /\ outcome.success = PyNone
           /\ Len(outcome.items) = 1
           /\ outcome.items[1].action = Action("download")
           /\ outcome.items[1].result = PyStr(<<"No Change in URL Data">>)
           /\ CallsWith({"urlretrieve", "overwrite", "update"}) = <<>>

C6_Witness ==
    /\ pc = "returned"
    /\ NotNewer
    /\ ReferenceMillis = mtime
    /\ headers.sec >= 1

\* C7: a local update file whose name differs from the published one is
\* never overwritten with, nothing is touched, and the call returns success
\* false with the one record "verify".
C7_FilenameMismatch ==
    LocalMismatch
        => /\ Destructive = <<>>
           /\ pc = "returned"
                => /\ outcome.success = PyFalse
                   /\ Len(outcome.items) = 1
                   /\ outcome.items[1].action = Action("verify")

C7_Witness ==
    /\ pc = "returned"
    /\ LocalMismatch
    /\ touchItems
    /\ item.views > 0

\* the download records that report a failure
DownloadFailures ==
    SelectSeq(outcome.items,
              LAMBDA r : r.action = Action("download")
                         /\ r.result # PyStr(<<"No Change in URL Data">>))

RaisedCalls(ops) == SelectSeq(calls, LAMBDA c : c.op \in ops /\ c.reply.raised)

\* C8: every touch has its one record, a string unless the reply was True;
\* every overwrite has its one record, a string unless the reply was a map
\* with a true "success"; every URL open or download that raised has its one
\* record, a string; the call raises only out of a catalog query or the
\* manager fetch; and once the views are listed a call that returns has
\* touched each of them.
C8_FailuresBecomeRecords ==
    /\ Len(RecordsWith("touch")) = Len(CallsWith({"update"}))
    /\ \A k \in 1..Len(RecordsWith("touch")) :
         /\ RecordsWith("touch")[k].id = CallsWith({"update"})[k].on
         /\ CallsWith({"update"})[k].reply # Returns(PyTrue)
              => RecordsWith("touch")[k].result.t = "str"
    /\ Len(RecordsWith("update")) = Len(CallsWith({"overwrite"}))
    /\ \A k \in 1..Len(RecordsWith("update")) :
         CallsWith({"overwrite"})[k].reply # SuccessReply
              => RecordsWith("update")[k].result.t = "str"
    /\ Len(DownloadFailures) = Len(RaisedCalls({"urlopen", "urlretrieve"}))
    /\ \A k \in 1..Len(DownloadFailures) : DownloadFailures[k].result.t = "str"
    /\ (entry = "import" /\ pc = "raised")
         => calls[Len(calls)].op \in {"related_items", "fromitem"}
    /\ RaisedCalls({"urlopen", "urlretrieve", "overwrite", "update"}) # <<>>
         => pc # "raised"
    /\ (pc = "returned" /\ \E i \in 1..Len(calls) :
            calls[i].arg = <<"Service2Service">> /\ ~calls[i].reply.raised)
         => \A id \in ViewIds : Len(TouchesOf(id)) = 1

C8_Witness ==
    /\ pc = "returned"
    /\ item.views >= 2
    /\ Len(ViewRecords) = item.views
    /\ ViewRecords[1].result.t = "str"
    /\ ViewRecords[2].result = PyTrue
    /\ RaisedCalls({"update"}) # <<>>

\* C9: a returned outcome whose success is false holds one record, the
\* target item's, for the step that failed, with a string as result; the
\* script can always report it.
C9_FailureHasOneStringRecord ==
    /\ (pc = "returned" /\ outcome.success = PyFalse)
         => /\ Len(outcome.items) = 1
            /\ outcome.items[1].id = item.id
            /\ outcome.items[1].action \in
                 {Action("verify"), Action("download"), Action("update"), Action("touch")}
            /\ outcome.items[1].result.t = "str"
    /\ exitMessage # PyStr(<<"IndexError">>)
    /\ exitMessage.t \in {"NoneType", "str"}

C9_Witness ==
    /\ pc = "returned"
    /\ outcome.success = PyFalse
    /\ outcome.items[1].action = Action("touch")

\* C10 as stated: when the run is at the item lookup the session is bound
\* and logged in.
C10_SessionBeforeLookup ==
    pc = "L307" => (gis.bound /\ Truthy(gis.username))

=============================================================================
